---- MODULE Spec2Model ----
(***************************************************************************)
(* Telegram -> Google Drive relay bot (mobile_friendly_bot.py and          *)
(* render_compatible_bot.py).  The model follows one handler invocation    *)
(* per session through check_authorization and handle_file, with every     *)
(* call to the chat transport and to the storage provider able to raise.   *)
(* The handlers of the two files are the same statement for statement      *)
(* (render_compatible_bot.py only opens the temporary file once more for   *)
(* reading and logs the cleanup inside the existence test), so one set of  *)
(* actions stands for both.  A session is off until an event is delivered  *)
(* to it; Init delivers one event, to session 1.                           *)
(*                                                                         *)
(* Byte counts of the declared file size are kept as two limbs             *)
(* [g |-> gigabytes, b |-> remaining bytes] because 6 * 1024^3 does not    *)
(* fit the checker's integers; Python's integers are unbounded.            *)
(***************************************************************************)
EXTENDS Integers, Sequences, FiniteSets, TLC

VARIABLES AUTHORIZED_USERS, fs, run, proc, call

vars == <<AUTHORIZED_USERS, fs, run, proc, call>>

\* ---------------------------------------------------------------- bounds
\* chunks the chat transport yields at most during one download
MaxChunks == 2
\* next_chunk() calls the storage provider answers at most during one upload
MaxAcks == 2

\* ---------------------------------------------------------------- inputs
Sessions == {1, 2}
Users == {11, 22}
AllowLists == {{}, {11}}
Paths == {"tmp_a", "tmp_b"}
Handlers == {"file", "start", "help", "status", "text"}
GiB == 1024 * 1024 * 1024

Bytes(g, b) == [g |-> g, b |-> b]

\* declared sizes: 0, small sizes, the ceiling, one byte over it, far over it
FileSizes ==
    {Bytes(0, 0), Bytes(0, 3), Bytes(0, 100),
     Bytes(6, 0), Bytes(6, 1), Bytes(7, 5)}

\* lengths of the chunks the chat transport may yield (each <= chunk_size)
ChunkLens == {1, 2, 29}

\* progress fractions <<resumable_progress, total_size>> the provider may report
Fractions == {<<1, 100>>, <<4, 100>>, <<29, 100>>}

\* str(error) of the HttpError the provider may raise
ProviderErrors == {"quotaExceeded", "backendError"}

\* the final response of the provider
Response == [id |-> "drive_id", webViewLink |-> "drive_link"]
NoResponse == [id |-> "None", webViewLink |-> "None"]

None == "None"
NoExc == [type |-> "None", text |-> "None"]
Exc(type, text) == [type |-> type, text |-> text]
NoFile == [exists |-> FALSE, data |-> <<>>]

\* ------------------------------------------------------- pure functions
\* the gate lets every sender through
IsAuthorized_Open(user_id, users) == TRUE

\* the empty allow-list is not read as "allow all"
IsAuthorized_NoEmptyRule(user_id, users) == user_id \in users

\* the decision of check_authorization
IsAuthorized(user_id, users) ==
    IF users = {} THEN TRUE
    ELSE IF user_id \in users THEN TRUE
    ELSE FALSE

\* max_size = 6 * 1024 * 1024 * 1024
max_size == Bytes(6, 0)

\* file_size >= max_size
TooLarge_OrEqual(file_size) ==
    \/ file_size.g > max_size.g
    \/ file_size.g = max_size.g /\ file_size.b >= max_size.b

\* file_size > max_size
TooLarge(file_size) ==
    \/ file_size.g > max_size.g
    \/ file_size.g = max_size.g /\ file_size.b > max_size.b

chunk_size == 1 * 1024 * 1024

\* Percentages k for which the double nearest to k/100, multiplied by 100
\* and rounded to a double, lies below k: int(0.29 * 100) = 28,
\* int(0.57 * 100) = 56, int(0.58 * 100) = 57.  For every other ratio
\* num/den with den < 2^31, int((num / den) * 100) is the exact floor.
TruncatedBelow == {29, 57, 58}

\* int((num / den) * 100) in IEEE-754 double arithmetic, den > 0
IntPercent(num, den) ==
    LET k == (num * 100) \div den
    IN  IF (num * 100) % den = 0 /\ k \in TruncatedBelow THEN k - 1 ELSE k

Min(a, b) == IF a <= b THEN a ELSE b

\* file_size = 0: downloaded_size / file_size raises ZeroDivisionError
DivisionByZero(file_size) == file_size.g = 0 /\ file_size.b = 0

\* progress = min(int((downloaded_size / file_size) * 100), 100);
\* with a declared size of 1 GiB or more the bytes of a bounded download
\* (at most MaxChunks chunks of at most 29 bytes) stay below one percent
DownloadProgress(downloaded_size, file_size) ==
    IF file_size.g > 0
    THEN 0
    ELSE Min(IntPercent(downloaded_size, file_size.b), 100)

\* if progress - last_progress_update > 3
NeedsDownloadUpdate_Strict(progress, last_progress_update) ==
    progress - last_progress_update > 3

\* the download loop uses the threshold of the upload loop
NeedsDownloadUpdate_Five(progress, last_progress_update) ==
    progress - last_progress_update >= 5

\* if progress - last_progress_update >= 3
NeedsDownloadUpdate(progress, last_progress_update) ==
    progress - last_progress_update >= 3

\* progress = int(status.progress() * 100)
UploadProgress(fraction) == IntPercent(fraction[1], fraction[2])

\* if progress - last_upload_progress > 5
NeedsUploadUpdate_Strict(progress, last_upload_progress) ==
    progress - last_upload_progress > 5

\* if progress - last_upload_progress >= 5
NeedsUploadUpdate(progress, last_upload_progress) ==
    progress - last_upload_progress >= 5

\* os.unlink(path): removes the file, FileNotFoundError when there is none
os_unlink(files, path) ==
    IF files[path].exists
    THEN [files |-> [files EXCEPT ![path] = NoFile], error |-> None]
    ELSE [files |-> files, error |-> "FileNotFoundError"]

\* the cleanup without the existence check
CleanupStep_NoCheck(files, temp_file_path) ==
    os_unlink(files, temp_file_path)

\* if os.path.exists(temp_file_path): os.unlink(temp_file_path)
CleanupStep(files, temp_file_path) ==
    IF files[temp_file_path].exists
    THEN os_unlink(files, temp_file_path)
    ELSE [files |-> files, error |-> None]

\* the files the cleanup leaves
Cleanup(files, temp_file_path) == CleanupStep(files, temp_file_path).files

\* number of os.unlink calls the cleanup makes
Unlinks(files, temp_file_path) ==
    IF files[temp_file_path].exists THEN 1 ELSE 0

\* round half to even of (quotient + remainder / divisor), the rounding
\* of the .2f format
RoundHalfEven(quotient, remainder, divisor) ==
    IF 2 * remainder > divisor \/ (2 * remainder = divisor /\ quotient % 2 = 1)
    THEN quotient + 1
    ELSE quotient

\* hundredths of n / (1024 * d), for n below 2^30, as .2f prints them;
\* n * 100 is split so that no product leaves 32 bits
Hundredths(n, d) ==
    LET a == (n \div 1024) * 100 + ((n % 1024) * 100) \div 1024
        br == ((n % 1024) * 100) % 1024
    IN  RoundHalfEven(a \div d, (a % d) * 1024 + br, 1024 * d)

\* the text of a size: integer part, the two decimals, unit
SizeText(hundredths, unit) ==
    [whole |-> hundredths \div 100,
     decimals |-> <<(hundredths \div 10) % 10, hundredths % 10>>,
     unit |-> unit]

\* the unit thresholds are exclusive
format_file_size_Exclusive(size_bytes) ==
    IF size_bytes.g > 1 \/ (size_bytes.g = 1 /\ size_bytes.b > 0)
    THEN SizeText(size_bytes.g * 100 + Hundredths(size_bytes.b, 1024 * 1024),
                  "GB")
    ELSE IF size_bytes.g = 1 \/ size_bytes.b > 1024 * 1024
    THEN SizeText(Hundredths(size_bytes.b, 1024)
                    + (IF size_bytes.g = 1 THEN 102400 ELSE 0), "MB")
    ELSE IF size_bytes.b > 1024
    THEN SizeText(Hundredths(size_bytes.b, 1), "KB")
    ELSE [whole |-> size_bytes.b, decimals |-> <<>>, unit |-> "B"]

\* format_file_size(size_bytes)
format_file_size(size_bytes) ==
    IF size_bytes.g >= 1
    THEN SizeText(size_bytes.g * 100 + Hundredths(size_bytes.b, 1024 * 1024),
                  "GB")
    ELSE IF size_bytes.b >= 1024 * 1024
    THEN SizeText(Hundredths(size_bytes.b, 1024), "MB")
    ELSE IF size_bytes.b >= 1024
    THEN SizeText(Hundredths(size_bytes.b, 1), "KB")
    ELSE [whole |-> size_bytes.b, decimals |-> <<>>, unit |-> "B"]

\* the bar of create_progress_bar: filled cells, then empty cells
Bar(filled, width) ==
    [i \in 1..(IF filled > width THEN filled ELSE width) |->
        IF i <= filled THEN "filled" ELSE "empty"]

\* the number of filled cells is rounded to the nearest integer
create_progress_bar_Rounded(progress, width) ==
    [bar |-> Bar((width * progress + 50) \div 100, width),
     percent |-> progress]

\* create_progress_bar(progress, width=20): int() of the float quotient of
\* two integers is the floor of the exact quotient for progress >= 0
create_progress_bar(progress, width) ==
    [bar |-> Bar((width * progress) \div 100, width), percent |-> progress]

\* ------------------------------------------------------------ messages
Msg(kind, detail, link) == [kind |-> kind, detail |-> detail, link |-> link]

\* reply_text / edit_text: the call is made, then it returns or raises
Emit(r, kind, detail) ==
    [r EXCEPT !.msgs = Append(@, Msg(kind, detail, None))]

\* the handler returns to its caller
Return(r) == [r EXCEPT !.pc = "done", !.result = "returned"]

\* an exception leaves the handler
Escape(r, e) ==
    [r EXCEPT !.pc = "done", !.result = "raised", !.exc = e,
              !.raised = Append(@, e)]

\* an exception raised inside a try block travels to the given handler
Raise(r, e, handler) ==
    [r EXCEPT !.pc = handler, !.exc = e, !.raised = Append(@, e)]

Kinds(r) == {r.msgs[i].kind : i \in 1..Len(r.msgs)}

\* ---------------------------------------------------------------- state
Off ==
    [pc |-> "off", handler |-> "file", user_id |-> 11, document |-> TRUE,
     file_size |-> Bytes(0, 0), authorized |-> None,
     status_message |-> FALSE, temp_file_path |-> None,
     downloaded_size |-> 0, last_progress_update |-> -1, progress |-> 0,
     yielded |-> <<>>, dl_trace |-> <<>>, dl_shown |-> <<>>,
     last_upload_progress |-> -1, acks |-> 0, response |-> NoResponse,
     ul_trace |-> <<>>, ul_shown |-> <<>>,
     http_error |-> None, push_failed |-> FALSE,
     drive |-> <<>>, exc |-> NoExc, msgs |-> <<>>,
     created |-> 0, unlinked |-> 0, result |-> "pending",
     variant |-> "mobile", opened |-> 0, steps |-> 0, raised |-> <<>>]

\* an inbound event: handler, sender, attachment and declared size
Event(handler, user_id, document, file_size) ==
    [Off EXCEPT !.pc = "check_authorization", !.handler = handler,
                !.user_id = user_id, !.document = document,
                !.file_size = file_size]

Events ==
    {Event(h, u, d, s) : h \in Handlers, u \in Users, d \in BOOLEAN,
                         s \in FileSizes}

\* the events the dispatcher can deliver: a file size only with a document
\* for the file handler
Deliverable ==
    {e \in Events :
        /\ e.handler # "file" => (e.document = FALSE /\ e.file_size = Bytes(0, 0))
        /\ e.document = FALSE => e.file_size = Bytes(0, 0)}

\* the last call of a formatting helper and its result: none yet
NoCall ==
    [fn |-> "none", progress |-> 0, size_bytes |-> Bytes(0, 0),
     bar |-> <<>>, percent |-> 0, whole |-> 0, decimals |-> <<>>,
     unit |-> None]

\* the hosting process: which file runs, whether TELEGRAM_BOT_TOKEN and
\* GOOGLE_SERVICE_ACCOUNT are set, where the main thread is, where the bot
\* (the Application, in the render variant a thread) is, requests served
Process(variant, token, credential) ==
    [variant |-> variant, token |-> token, credential |-> credential,
     main |-> "start", bot |-> "none", served |-> 0]

\* a configured process that is up and dispatching updates
Configured ==
    [Process("mobile", TRUE, TRUE) EXCEPT !.main = "serving", !.bot = "built"]

Init ==
    /\ AUTHORIZED_USERS \in AllowLists
    /\ fs = [p \in Paths |-> NoFile]
    /\ proc = Configured
    /\ call = NoCall
    /\ \E e \in Deliverable : run = [s \in Sessions |-> IF s = 1 THEN e ELSE Off]

\* the handler invocations that have begun
Started == {s \in Sessions : run[s].pc # "off"}

\* one step of a handler invocation
Upd(s, r) ==
    /\ run' = [run EXCEPT ![s] = [r EXCEPT !.steps = run[s].steps + 1]]
    /\ UNCHANGED <<proc, call>>

\* ---------------------------------------------- the formatting helpers
Progresses == 0..100

DefaultWidth == 20

\* byte counts around every unit threshold, rounding ties included
ByteCounts ==
    {Bytes(0, n) : n \in {0, 1, 512, 1023, 1024, 1025, 1029, 1030, 1152, 1408,
                          1536, 1048575, 1048576, 1572864, GiB - 1}}
        \cup {Bytes(1, 0), Bytes(1, GiB \div 2), Bytes(6, 0), Bytes(7, 5)}

InitHelpers ==
    /\ AUTHORIZED_USERS \in AllowLists
    /\ fs = [p \in Paths |-> NoFile]
    /\ run = [s \in Sessions |-> Off]
    /\ proc = Configured
    /\ call = NoCall

\* progress_bar = create_progress_bar(progress)
CallCreateProgressBar ==
    /\ UNCHANGED <<AUTHORIZED_USERS, fs, run, proc>>
    /\ \E progress \in Progresses :
          LET out == create_progress_bar(progress, DefaultWidth)
          IN  call' = [NoCall EXCEPT !.fn = "create_progress_bar",
                                     !.progress = progress,
                                     !.bar = out.bar, !.percent = out.percent]

\* file_size_formatted = format_file_size(file_size)
CallFormatFileSize ==
    /\ UNCHANGED <<AUTHORIZED_USERS, fs, run, proc>>
    /\ \E size_bytes \in ByteCounts :
          LET out == format_file_size(size_bytes)
          IN  call' = [NoCall EXCEPT !.fn = "format_file_size",
                                     !.size_bytes = size_bytes,
                                     !.whole = out.whole,
                                     !.decimals = out.decimals,
                                     !.unit = out.unit]

NextHelpers == CallCreateProgressBar \/ CallFormatFileSize

SpecHelpers == InitHelpers /\ [][NextHelpers]_vars

\* ---------------------------------------------------------------- actions
\* check_authorization(update), called first by every handler
CheckAuthorization(s) ==
    /\ run[s].pc = "check_authorization"
    /\ UNCHANGED <<AUTHORIZED_USERS, fs>>
    /\ IF IsAuthorized(run[s].user_id, AUTHORIZED_USERS)
       THEN Upd(s, [run[s] EXCEPT !.authorized = "True", !.pc = run[s].handler])
       ELSE LET r == Emit([run[s] EXCEPT !.authorized = "False"], "denied", None)
            IN  \/ Upd(s, Return(r))
                \/ Upd(s, Escape(r, Exc("TelegramError", "denied")))

\* start_command, help_command, text_handler after the gate: one reply
Reply(s) ==
    /\ run[s].pc \in {"start", "help", "text"}
    /\ UNCHANGED <<AUTHORIZED_USERS, fs>>
    /\ LET r == Emit(run[s], run[s].pc, None)
       IN  \/ Upd(s, Return(r))
           \/ Upd(s, Escape(r, Exc("TelegramError", run[s].pc)))

\* status_command after the gate: the provider is asked for the quota inside
\* try/except, then the report is sent
StatusCommand(s) ==
    /\ run[s].pc = "status"
    /\ UNCHANGED <<AUTHORIZED_USERS, fs>>
    /\ \E d \in {<<"auth">>, <<"auth", "about">>} :
          LET r == Emit([run[s] EXCEPT !.drive = d], "status_report", None)
          IN  \/ Upd(s, Return(r))
              \/ Upd(s, Escape(r, Exc("TelegramError", "status_report")))

\* handle_file after the gate: the document check, the size guard and the
\* received notice, all outside the try block
ValidateFile(s) ==
    /\ run[s].pc = "file"
    /\ UNCHANGED <<AUTHORIZED_USERS, fs>>
    /\ IF ~run[s].document
       THEN LET r == Emit(run[s], "need_document", None)
            IN  \/ Upd(s, Return(r))
                \/ Upd(s, Escape(r, Exc("TelegramError", "need_document")))
       ELSE IF TooLarge(run[s].file_size)
       THEN LET r == Emit(run[s], "too_large", None)
            IN  \/ Upd(s, Return(r))
                \/ Upd(s, Escape(r, Exc("TelegramError", "too_large")))
       ELSE LET r == Emit(run[s], "received", None)
            IN  \/ Upd(s, [r EXCEPT !.pc = "prepare"])
                \/ Upd(s, Escape(r, Exc("TelegramError", "received")))

\* status_message = await update.message.reply_text("Preparing download...")
Prepare(s) ==
    /\ run[s].pc = "prepare"
    /\ UNCHANGED <<AUTHORIZED_USERS, fs>>
    /\ LET r == Emit(run[s], "preparing", None)
       IN  \/ Upd(s, [r EXCEPT !.status_message = TRUE, !.pc = "get_file"])
           \/ Upd(s, Raise(r, Exc("TelegramError", "preparing"), "except"))

\* the temporary file a successful get_file is followed by:
\* NamedTemporaryFile(delete=False) takes a name no existing file has, then
\* open(temp_file_path, 'wb') and the counters of the download loop
CreateTemp(r, path) ==
    [r EXCEPT !.temp_file_path = path, !.created = @ + 1,
              !.downloaded_size = 0, !.last_progress_update = -1,
              !.pc = "download"]

\* get_file followed by a temporary file whose name may be one in use
GetFile_AnyName(s) ==
    /\ run[s].pc = "get_file"
    /\ UNCHANGED AUTHORIZED_USERS
    /\ \E path \in Paths :
          /\ fs' = [fs EXCEPT ![path] = [exists |-> TRUE, data |-> <<>>]]
          /\ Upd(s, CreateTemp(run[s], path))

\* telegram_file = await context.bot.get_file(file.file_id)
GetFile(s) ==
    /\ run[s].pc = "get_file"
    /\ UNCHANGED AUTHORIZED_USERS
    /\ \/ /\ Upd(s, Raise(run[s], Exc("TelegramError", "get_file"), "except"))
          /\ UNCHANGED fs
       \/ \E path \in Paths :
             /\ ~fs[path].exists
             /\ fs' = [fs EXCEPT ![path] = [exists |-> TRUE, data |-> <<>>]]
             /\ Upd(s, CreateTemp(run[s], path))

\* the download loop hands over to the upload as soon as it shows 100%
WriteChunk_EagerUpload(r, chunk) ==
    LET d == r.downloaded_size + chunk.len
        w == [r EXCEPT !.yielded = Append(@, chunk), !.downloaded_size = d]
    IN  IF DivisionByZero(r.file_size)
        THEN Raise(w, Exc("ZeroDivisionError", "division by zero"), "except")
        ELSE LET p == DownloadProgress(d, r.file_size)
             IN  [w EXCEPT
                    !.progress = p,
                    !.dl_trace = Append(@, [progress |-> p,
                                            last |-> r.last_progress_update]),
                    !.pc = IF p >= 100
                           THEN "get_drive_service"
                           ELSE IF NeedsDownloadUpdate(p, r.last_progress_update)
                           THEN "download_push" ELSE "download"]

\* the download loop adds chunk_size, not len(chunk), to the counter
WriteChunk_CountsChunkSize(r, chunk) ==
    LET d == r.downloaded_size + chunk_size
        w == [r EXCEPT !.yielded = Append(@, chunk), !.downloaded_size = d]
    IN  IF DivisionByZero(r.file_size)
        THEN Raise(w, Exc("ZeroDivisionError", "division by zero"), "except")
        ELSE LET p == DownloadProgress(d, r.file_size)
             IN  [w EXCEPT
                    !.progress = p,
                    !.dl_trace = Append(@, [progress |-> p,
                                            last |-> r.last_progress_update]),
                    !.pc = IF NeedsDownloadUpdate(p, r.last_progress_update)
                           THEN "download_push" ELSE "download"]

\* the body of the download loop for one chunk, up to the threshold test
WriteChunk(r, chunk) ==
    LET d == r.downloaded_size + chunk.len
        w == [r EXCEPT !.yielded = Append(@, chunk), !.downloaded_size = d]
    IN  IF DivisionByZero(r.file_size)
        THEN Raise(w, Exc("ZeroDivisionError", "division by zero"), "except")
        ELSE LET p == DownloadProgress(d, r.file_size)
             IN  [w EXCEPT
                    !.progress = p,
                    !.dl_trace = Append(@, [progress |-> p,
                                            last |-> r.last_progress_update]),
                    !.pc = IF NeedsDownloadUpdate(p, r.last_progress_update)
                           THEN "download_push" ELSE "download"]

\* async for chunk in telegram_file.download_chunk(chunk_size=chunk_size)
DownloadChunk(s) ==
    /\ run[s].pc = "download"
    /\ UNCHANGED AUTHORIZED_USERS
    /\ \/ /\ Upd(s, [run[s] EXCEPT !.pc = "download_complete"])
          /\ UNCHANGED fs
       \/ /\ Upd(s, Raise(run[s], Exc("NetworkError", "download_chunk"), "except"))
          /\ UNCHANGED fs
       \/ /\ Len(run[s].yielded) < MaxChunks
          /\ \E len \in ChunkLens :
                LET chunk == [seq |-> Len(run[s].yielded) + 1, len |-> len]
                    path == run[s].temp_file_path
                IN  /\ len <= chunk_size
                    /\ fs' = [fs EXCEPT ![path].data = Append(@, chunk)]
                    /\ Upd(s, WriteChunk(run[s], chunk))

\* the download-progress edit of status_message and last_progress_update
DownloadPush(s) ==
    /\ run[s].pc = "download_push"
    /\ UNCHANGED <<AUTHORIZED_USERS, fs>>
    /\ LET r == [Emit(run[s], "download_progress", None)
                   EXCEPT !.dl_shown = Append(@, run[s].progress)]
       IN  \/ Upd(s, [r EXCEPT !.last_progress_update = run[s].progress,
                               !.pc = "download"])
           \/ Upd(s, Raise([r EXCEPT !.push_failed = TRUE],
                           Exc("TelegramError", "download_progress"), "except"))

\* the "Download Complete!" edit after the loop
DownloadComplete(s) ==
    /\ run[s].pc = "download_complete"
    /\ UNCHANGED <<AUTHORIZED_USERS, fs>>
    /\ LET r == Emit(run[s], "download_complete", None)
       IN  \/ Upd(s, [r EXCEPT !.pc = "get_drive_service"])
           \/ Upd(s, Raise(r, Exc("TelegramError", "download_complete"), "except"))

\* the upload opens the temporary file for writing in the render variant
OpenTemp_Write(r) ==
    [r EXCEPT !.opened = @ + 1,
              !.created = @ + (IF r.variant = "render" THEN 1 ELSE 0)]

\* io.FileIO(temp_file_path, 'rb') for the upload; the render variant wraps
\* it in `with open(temp_file_path, 'rb') as f:`, one more read handle
OpenTemp(r) ==
    [r EXCEPT !.opened = @ + (IF r.variant = "render" THEN 2 ELSE 1)]

\* drive_service = get_drive_service(), then MediaIoBaseUpload and
\* files().create build the resumable upload request
GetDriveService(s) ==
    /\ run[s].pc = "get_drive_service"
    /\ UNCHANGED <<AUTHORIZED_USERS, fs>>
    /\ \/ /\ proc.credential
          /\ Upd(s, [OpenTemp(run[s])
                       EXCEPT !.drive = @ \o <<"auth", "create">>,
                              !.response = NoResponse,
                              !.last_upload_progress = -1,
                              !.pc = "upload"])
       \/ Upd(s, Raise([run[s] EXCEPT !.drive = Append(@, "auth")],
                       Exc("Exception", "GOOGLE_SERVICE_ACCOUNT"), "finally"))

\* the body of the upload loop after a chunk acknowledgment with a status
Acknowledge(r, fraction) ==
    LET p == UploadProgress(fraction)
    IN  [r EXCEPT
           !.progress = p,
           !.acks = @ + 1,
           !.ul_trace = Append(@, [fraction |-> fraction, progress |-> p,
                                   last |-> r.last_upload_progress]),
           !.pc = IF NeedsUploadUpdate(p, r.last_upload_progress)
                  THEN "upload_push" ELSE "upload"]

\* status, response = request.next_chunk()
NextChunk(s) ==
    /\ run[s].pc = "upload"
    /\ UNCHANGED <<AUTHORIZED_USERS, fs>>
    /\ LET r == [run[s] EXCEPT !.drive = Append(@, "next_chunk")]
       IN  \/ Upd(s, [r EXCEPT !.response = Response, !.pc = "success"])
           \/ \E e \in ProviderErrors :
                 Upd(s, Raise([r EXCEPT !.http_error = e],
                              Exc("HttpError", e), "http_except"))
           \/ Upd(s, Raise(r, Exc("NetworkError", "next_chunk"), "finally"))
           \/ /\ r.acks < MaxAcks
              /\ \E fraction \in Fractions : Upd(s, Acknowledge(r, fraction))

\* the upload-progress edit of status_message and last_upload_progress
UploadPush(s) ==
    /\ run[s].pc = "upload_push"
    /\ UNCHANGED <<AUTHORIZED_USERS, fs>>
    /\ LET r == [Emit(run[s], "upload_progress", None)
                   EXCEPT !.ul_shown = Append(@, run[s].progress)]
       IN  \/ Upd(s, [r EXCEPT !.last_upload_progress = run[s].progress,
                               !.pc = "upload"])
           \/ Upd(s, Raise([r EXCEPT !.push_failed = TRUE],
                           Exc("TelegramError", "upload_progress"), "finally"))

\* the success edit leaves out the link
SuccessMessage_NoLink(r) ==
    [r EXCEPT !.msgs = Append(@, Msg("success", r.response.id, None))]

\* the "Upload Successful!" edit with the provider's id and link
SuccessMessage(r) ==
    [r EXCEPT !.msgs = Append(@, Msg("success", r.response.id,
                                     r.response.webViewLink))]

Success(s) ==
    /\ run[s].pc = "success"
    /\ UNCHANGED <<AUTHORIZED_USERS, fs>>
    /\ LET r == SuccessMessage(run[s])
       IN  \/ Upd(s, [r EXCEPT !.pc = "finally"])
           \/ Upd(s, Raise(r, Exc("TelegramError", "success"), "finally"))

\* the edit reports a fixed text instead of str(error)
UploadFailedMessage_NoDetail(r) == Emit(r, "upload_failed", "upload failed")

\* the "Google Drive Upload Failed" edit with error_msg = str(error)
UploadFailedMessage(r) == Emit(r, "upload_failed", r.exc.text)

\* except HttpError as error
HttpExcept(s) ==
    /\ run[s].pc = "http_except"
    /\ UNCHANGED <<AUTHORIZED_USERS, fs>>
    /\ LET r == UploadFailedMessage(run[s])
       IN  \/ Upd(s, [r EXCEPT !.exc = NoExc, !.pc = "finally"])
           \/ Upd(s, Raise(r, Exc("TelegramError", "upload_failed"), "finally"))

\* finally: the cleanup of the temporary file, then the pending exception,
\* if any, goes on to the outer handler
Finally(s) ==
    /\ run[s].pc = "finally"
    /\ UNCHANGED AUTHORIZED_USERS
    /\ fs' = Cleanup(fs, run[s].temp_file_path)
    /\ LET r == [run[s] EXCEPT
                   !.unlinked = @ + Unlinks(fs, run[s].temp_file_path)]
           error == CleanupStep(fs, run[s].temp_file_path).error
       IN  IF error # None
           THEN Upd(s, Raise(r, Exc(error, "unlink"), "except"))
           ELSE IF r.exc = NoExc
           THEN Upd(s, Return(r))
           ELSE Upd(s, [r EXCEPT !.pc = "except"])

\* except Exception as e: the "Error Processing File" reply with str(e)
Except(s) ==
    /\ run[s].pc = "except"
    /\ UNCHANGED <<AUTHORIZED_USERS, fs>>
    /\ LET r == Emit(run[s], "error", run[s].exc.text)
       IN  \/ Upd(s, Return(r))
           \/ Upd(s, Escape(r, Exc("TelegramError", "error")))

\* chunk_size_upload = 2 * 1024 * 1024
chunk_size_upload == 2 * 1024 * 1024

RECURSIVE FileLen(_)
\* the size in bytes of a file holding the given chunks
FileLen(data) ==
    IF data = <<>> THEN 0 ELSE Head(data).len + FileLen(Tail(data))

\* async for chunk in telegram_file.download_chunk(chunk_size=chunk_size),
\* against a transport that delivers the declared size (below 1 GiB) in
\* chunks of chunk_size bytes, the last one shorter, and may raise
TransportChunk(s) ==
    /\ run[s].pc = "download"
    /\ run[s].file_size.g = 0
    /\ UNCHANGED AUTHORIZED_USERS
    /\ LET remaining == run[s].file_size.b - run[s].downloaded_size
           chunk == [seq |-> Len(run[s].yielded) + 1,
                     len |-> Min(chunk_size, remaining)]
           path == run[s].temp_file_path
       IN  \/ /\ remaining <= 0
              /\ Upd(s, [run[s] EXCEPT !.pc = "download_complete"])
              /\ UNCHANGED fs
           \/ /\ remaining > 0
              /\ fs' = [fs EXCEPT ![path].data = Append(@, chunk)]
              /\ Upd(s, WriteChunk(run[s], chunk))
           \/ /\ remaining > 0
              /\ Upd(s, Raise(run[s], Exc("NetworkError", "download_chunk"),
                              "except"))
              /\ UNCHANGED fs

\* status, response = request.next_chunk(), against a provider that takes
\* the temporary file in chunks of chunk_size_upload bytes, answers each
\* but the last with the fraction received so far and the last with the
\* final response, and may raise
ProviderChunk(s) ==
    /\ run[s].pc = "upload"
    /\ UNCHANGED <<AUTHORIZED_USERS, fs>>
    /\ LET r == [run[s] EXCEPT !.drive = Append(@, "next_chunk")]
           total == FileLen(fs[run[s].temp_file_path].data)
           sent == run[s].acks * chunk_size_upload
       IN  \/ /\ total - sent <= chunk_size_upload
              /\ Upd(s, [r EXCEPT !.response = Response, !.pc = "success"])
           \/ /\ total - sent > chunk_size_upload
              /\ Upd(s, Acknowledge(r, <<sent + chunk_size_upload, total>>))
           \/ \E e \in ProviderErrors :
                 Upd(s, Raise([r EXCEPT !.http_error = e],
                              Exc("HttpError", e), "http_except"))
           \/ Upd(s, Raise(r, Exc("NetworkError", "next_chunk"), "finally"))

Next ==
    \E s \in Sessions :
        \/ CheckAuthorization(s)
        \/ Reply(s)
        \/ StatusCommand(s)
        \/ ValidateFile(s)
        \/ Prepare(s)
        \/ GetFile(s)
        \/ DownloadChunk(s)
        \/ DownloadPush(s)
        \/ DownloadComplete(s)
        \/ GetDriveService(s)
        \/ NextChunk(s)
        \/ UploadPush(s)
        \/ Success(s)
        \/ HttpExcept(s)
        \/ Finally(s)
        \/ Except(s)

Spec == Init /\ [][Next]_vars

\* ------------------------------------------------- scenario: 10 MiB file
TenMiB == Bytes(0, 10 * 1024 * 1024)

\* a document of declared size 10 MiB arrives at the file handler
InitScenario ==
    /\ AUTHORIZED_USERS \in AllowLists
    /\ fs = [p \in Paths |-> NoFile]
    /\ proc = Configured
    /\ call = NoCall
    /\ \E u \in Users :
          run = [s \in Sessions |->
                    IF s = 1 THEN Event("file", u, TRUE, TenMiB) ELSE Off]

\* handle_file against the transport and the provider of the scenario
NextScenario ==
    \E s \in Sessions :
        \/ CheckAuthorization(s)
        \/ ValidateFile(s)
        \/ Prepare(s)
        \/ GetFile(s)
        \/ TransportChunk(s)
        \/ DownloadPush(s)
        \/ DownloadComplete(s)
        \/ GetDriveService(s)
        \/ ProviderChunk(s)
        \/ UploadPush(s)
        \/ Success(s)
        \/ HttpExcept(s)
        \/ Finally(s)
        \/ Except(s)

SpecScenario == InitScenario /\ [][NextScenario]_vars

\* --------------------------------------------------------- process start
MaxServed == 1
MaxEvents == 1

Variants == {"mobile", "render"}

\* a small document, larger than one upload chunk
SmallFile == Bytes(0, 3 * 1024 * 1024)

InitStartup ==
    /\ AUTHORIZED_USERS \in AllowLists
    /\ fs = [p \in Paths |-> NoFile]
    /\ run = [s \in Sessions |-> Off]
    /\ call = NoCall
    /\ \E v \in Variants, token, credential \in BOOLEAN :
          proc = Process(v, token, credential)

\* mobile, at import: Application.builder().token(TELEGRAM_BOT_TOKEN).build()
\* and the add_handler calls; no check of either variable. What the
\* builder does with a missing token is the library's choice.
BuildApplication ==
    /\ proc.variant = "mobile" /\ proc.main = "start"
    /\ UNCHANGED <<AUTHORIZED_USERS, fs, run, call>>
    /\ \/ proc' = [proc EXCEPT !.main = "built", !.bot = "built"]
       \/ /\ ~proc.token
          /\ proc' = [proc EXCEPT !.main = "exited"]

\* render, main(): bot_thread = threading.Thread(target=run_bot,
\* daemon=True); bot_thread.start()
StartThread ==
    /\ proc.variant = "render" /\ proc.main = "start"
    /\ UNCHANGED <<AUTHORIZED_USERS, fs, run, call>>
    /\ proc' = [proc EXCEPT !.main = "threaded", !.bot = "thread"]

\* render, run_bot() in its thread: ValueError when either variable is
\* missing, which ends the thread only; else build and run_polling()
RunBot ==
    /\ proc.bot = "thread"
    /\ UNCHANGED <<AUTHORIZED_USERS, fs, run, call>>
    /\ proc' = [proc EXCEPT !.bot = IF ~proc.token \/ ~proc.credential
                                     THEN "raised" ELSE "polling"]

\* app.run(host="0.0.0.0", port=PORT)
AppRun ==
    /\ proc.main \in {"built", "threaded"}
    /\ UNCHANGED <<AUTHORIZED_USERS, fs, run, call>>
    /\ proc' = [proc EXCEPT !.main = "serving"]

\* a request to "/" or "/health" is answered
ServeRequest ==
    /\ proc.main = "serving"
    /\ proc.served < MaxServed
    /\ UNCHANGED <<AUTHORIZED_USERS, fs, run, call>>
    /\ proc' = [proc EXCEPT !.served = @ + 1]

\* an update with a document reaches handle_file: through the webhook of
\* the serving mobile process, or through the polling of the render bot.
\* The builder call sets no concurrent_updates, so the Application handles
\* one update after the other.
Dispatch(s) ==
    /\ run[s].pc = "off"
    /\ \A t \in Sessions \ {s} : run[t].pc \in {"off", "done"}
    /\ Cardinality(Started) < MaxEvents
    /\ \/ proc.variant = "mobile" /\ proc.main = "serving"
       \/ proc.variant = "render" /\ proc.bot = "polling"
    /\ UNCHANGED <<AUTHORIZED_USERS, fs>>
    /\ \E u \in Users :
          Upd(s, [Event("file", u, TRUE, SmallFile)
                    EXCEPT !.variant = proc.variant])

NextStartup ==
    \/ BuildApplication
    \/ StartThread
    \/ RunBot
    \/ AppRun
    \/ ServeRequest
    \/ \E s \in Sessions :
          \/ Dispatch(s)
          \/ CheckAuthorization(s)
          \/ ValidateFile(s)
          \/ Prepare(s)
          \/ GetFile(s)
          \/ TransportChunk(s)
          \/ DownloadPush(s)
          \/ DownloadComplete(s)
          \/ GetDriveService(s)
          \/ ProviderChunk(s)
          \/ UploadPush(s)
          \/ Success(s)
          \/ HttpExcept(s)
          \/ Finally(s)
          \/ Except(s)

SpecStartup == InitStartup /\ [][NextStartup]_vars

\* ------------------------------------------------- concurrent handlers
\* two file events whose handle_file coroutines are both under way
InitConcurrent ==
    /\ AUTHORIZED_USERS \in AllowLists
    /\ fs = [p \in Paths |-> NoFile]
    /\ proc = Configured
    /\ call = NoCall
    /\ \E u \in [Sessions -> Users] :
          run = [s \in Sessions |-> Event("file", u[s], TRUE, SmallFile)]

\* the coroutines interleave at every await and at every provider call
NextConcurrent ==
    \E s \in Sessions :
        \/ CheckAuthorization(s)
        \/ ValidateFile(s)
        \/ Prepare(s)
        \/ GetFile(s)
        \/ TransportChunk(s)
        \/ DownloadPush(s)
        \/ DownloadComplete(s)
        \/ GetDriveService(s)
        \/ ProviderChunk(s)
        \/ UploadPush(s)
        \/ Success(s)
        \/ HttpExcept(s)
        \/ Finally(s)
        \/ Except(s)

SpecConcurrent == InitConcurrent /\ [][NextConcurrent]_vars

\* ------------------------------------------------------ the two variants
\* the same file event handled by handle_file of mobile_friendly_bot.py
\* (session 1) and of render_compatible_bot.py (session 2), under the same
\* allow-list: no document, a small document, one over the size ceiling
InitVariants ==
    /\ AUTHORIZED_USERS \in AllowLists
    /\ fs = [p \in Paths |-> NoFile]
    /\ proc = Configured
    /\ call = NoCall
    /\ \E u \in Users :
       \E e \in {Event("file", u, FALSE, Bytes(0, 0)),
                 Event("file", u, TRUE, SmallFile),
                 Event("file", u, TRUE, Bytes(7, 5))} :
          run = [s \in Sessions |->
                    [e EXCEPT !.variant = IF s = 1 THEN "mobile" ELSE "render"]]

SpecVariants == InitVariants /\ [][NextConcurrent]_vars

\* ------------------------------------------- download of irregular chunks
MaxParts == 4

\* a declared size on which every percentage is a byte count
HundredBytes == Bytes(0, 100)

\* chunk lengths that leave the last pushed percentage at 97, 98 or 99
PartLens == {1, 2, 3, 47, 49, 50, 97, 98}

InitDownload ==
    /\ AUTHORIZED_USERS \in AllowLists
    /\ fs = [p \in Paths |-> NoFile]
    /\ proc = Configured
    /\ call = NoCall
    /\ \E u \in Users :
          run = [s \in Sessions |->
                    IF s = 1 THEN Event("file", u, TRUE, HundredBytes) ELSE Off]

\* async for chunk in telegram_file.download_chunk(chunk_size=chunk_size),
\* against a transport that cuts the file into chunks of any of these
\* lengths, never delivers more than the declared size, may stop early
\* and may raise
TransportPart(s) ==
    /\ run[s].pc = "download"
    /\ run[s].file_size.g = 0
    /\ UNCHANGED AUTHORIZED_USERS
    /\ LET remaining == run[s].file_size.b - run[s].downloaded_size
           path == run[s].temp_file_path
       IN  \/ /\ Upd(s, [run[s] EXCEPT !.pc = "download_complete"])
              /\ UNCHANGED fs
           \/ /\ Upd(s, Raise(run[s], Exc("NetworkError", "download_chunk"),
                              "except"))
              /\ UNCHANGED fs
           \/ /\ Len(run[s].yielded) < MaxParts
              /\ \E len \in PartLens :
                    LET chunk == [seq |-> Len(run[s].yielded) + 1, len |-> len]
                    IN  /\ len <= remaining /\ len <= chunk_size
                        /\ fs' = [fs EXCEPT ![path].data = Append(@, chunk)]
                        /\ Upd(s, WriteChunk(run[s], chunk))

NextDownload ==
    \E s \in Sessions :
        \/ CheckAuthorization(s)
        \/ ValidateFile(s)
        \/ Prepare(s)
        \/ GetFile(s)
        \/ TransportPart(s)
        \/ DownloadPush(s)
        \/ DownloadComplete(s)
        \/ GetDriveService(s)
        \/ ProviderChunk(s)
        \/ Success(s)
        \/ HttpExcept(s)
        \/ Finally(s)
        \/ Except(s)

SpecDownload == InitDownload /\ [][NextDownload]_vars

\* ------------------------------------------------------------------ claims
\* the ceiling of the size guard, 6 * 1024^3 bytes, in limbs
OverCeiling(size) == size.g > 6 \/ (size.g = 6 /\ size.b > 0)

\* C1 (as claimed): every run of handle_file that created the temporary file
\* has, when it is over, no temporary file left and made exactly one unlink.
C1_TempFileDeletedExactlyOnce ==
    \A s \in Started :
        (run[s].pc = "done" /\ run[s].created > 0)
            => /\ ~fs[run[s].temp_file_path].exists
               /\ run[s].unlinked = 1

ProgressPushes == {"download_progress", "upload_progress"}

\* C2 (as claimed): a progress edit that raised never becomes the exception
\* that ends the transfer: the run is never in a handler because of it.
C2_PushFailureDoesNotAbort ==
    \A s \in Started :
        ~(/\ run[s].push_failed
          /\ run[s].pc \in {"finally", "except"}
          /\ run[s].exc.type = "TelegramError"
          /\ run[s].exc.text \in ProgressPushes)

\* C3 (as claimed): no exception leaves handle_file, whichever collaborator
\* call failed.
C3_NoFailureEscapes ==
    \A s \in Started : run[s].handler = "file" => run[s].result # "raised"

\* C4: once the size guard of handle_file has been evaluated (sender let
\* through, document present), the "file too large" message has been sent
\* if and only if the declared size exceeds 6 * 1024^3; and then it is the
\* only message, the run is over, no temporary file was created, no chunk
\* was fetched and no provider call was made.
C4_SizeGuard ==
    \A s \in Started :
        LET r == run[s]
        IN  (/\ r.handler = "file" /\ r.authorized = "True" /\ r.document
             /\ r.pc # "file")
            => /\ ("too_large" \in Kinds(r)) <=> OverCeiling(r.file_size)
               /\ "too_large" \in Kinds(r)
                    => /\ r.pc = "done"
                       /\ r.msgs = <<Msg("too_large", None, None)>>
                       /\ r.created = 0 /\ r.temp_file_path = None
                       /\ \A p \in Paths : ~fs[p].exists
                       /\ r.yielded = <<>>
                       /\ r.drive = <<>>

C4_Witness ==
    \E s \in Started :
        /\ run[s].pc = "done" /\ run[s].file_size = Bytes(6, 1)
        /\ run[s].authorized = "True"
        /\ run[s].msgs = <<Msg("too_large", None, None)>>

\* C5: with a non-empty allow-list that lacks the sender, every handler
\* sends the denial notice and nothing else: no other message, no temporary
\* file, no chunk fetched, no provider call, and the run ends at the gate.
C5_DeniedOnlyDenial ==
    \A s \in Started :
        LET r == run[s]
        IN  (AUTHORIZED_USERS # {} /\ r.user_id \notin AUTHORIZED_USERS)
            => /\ r.pc \in {"check_authorization", "done"}
               /\ r.msgs = IF r.pc = "done"
                           THEN <<Msg("denied", None, None)>> ELSE <<>>
               /\ r.created = 0 /\ r.temp_file_path = None
               /\ \A p \in Paths : ~fs[p].exists
               /\ r.yielded = <<>>
               /\ r.drive = <<>>

C5_Witness ==
    \E s \in Started :
        /\ AUTHORIZED_USERS # {} /\ run[s].user_id \notin AUTHORIZED_USERS
        /\ run[s].handler = "file" /\ run[s].document
        /\ run[s].pc = "done" /\ run[s].result = "returned"
        /\ Len(run[s].msgs) = 1

\* C6: a step of check_authorization decides "allowed" exactly when the
\* allow-list is empty or holds the sender, appends the rejection notice
\* exactly when it decides "denied", and changes nothing else: not the
\* allow-list, not the files, no other field of the run.
C6_CheckAuthorization ==
    [][\A s \in Sessions :
          (run[s].pc = "check_authorization" /\ run'[s] # run[s])
          => LET allowed == AUTHORIZED_USERS = {}
                            \/ run[s].user_id \in AUTHORIZED_USERS
                 r == run[s]
                 q == run'[s]
             IN  /\ AUTHORIZED_USERS' = AUTHORIZED_USERS
                 /\ fs' = fs
                 /\ q.authorized = IF allowed THEN "True" ELSE "False"
                 /\ q.msgs = IF allowed THEN r.msgs
                             ELSE Append(r.msgs, Msg("denied", None, None))
                 /\ allowed => (q.pc = r.handler /\ q.result = "pending")
                 /\ ~allowed => q.pc = "done"
                 /\ q = [r EXCEPT !.authorized = q.authorized,
                                  !.msgs = q.msgs, !.pc = q.pc,
                                  !.result = q.result, !.exc = q.exc,
                                  !.raised = q.raised,
                                  !.steps = r.steps + 1]]_vars

C6_Witness ==
    \E s \in Started :
        /\ run[s].authorized = "False"
        /\ "denied" \in Kinds(run[s])
        /\ AUTHORIZED_USERS = {11} /\ run[s].user_id = 22

\* C7 (as claimed): with a declared size of 0, after any chunk the progress
\* is 100 and no ZeroDivisionError is pending or was reported.
C7_ZeroSizeNeverDividesByZero ==
    \A s \in Started :
        (run[s].file_size = Bytes(0, 0) /\ run[s].yielded # <<>>)
            => /\ run[s].progress = 100
               /\ run[s].exc.type # "ZeroDivisionError"

\* C8: when the provider raised an HttpError during the resumable upload,
\* the finished run has sent the upload-failure message carrying the
\* provider's error text unchanged, has sent no success message, shows the
\* generic failure message only if the upload-failure edit itself raised,
\* and has removed the temporary file with one unlink.
C8_UploadFailure ==
    \A s \in Started :
        LET r == run[s]
        IN  (r.http_error # None /\ r.pc = "done")
            => /\ \E i \in 1..Len(r.msgs) :
                     r.msgs[i] = Msg("upload_failed", r.http_error, None)
               /\ "success" \notin Kinds(r)
               /\ "error" \in Kinds(r)
                    => r.msgs[Len(r.msgs)] = Msg("error", "upload_failed", None)
               /\ r.created = 1
               /\ ~fs[r.temp_file_path].exists
               /\ r.unlinked = 1

C8_Witness ==
    \E s \in Started :
        /\ run[s].http_error = "quotaExceeded"
        /\ run[s].pc = "done" /\ run[s].result = "returned"
        /\ run[s].msgs[Len(run[s].msgs)]
             = Msg("upload_failed", "quotaExceeded", None)
        /\ run[s].yielded # <<>>

\* the entries of a progress trace that reach the threshold
Crossing(trace, threshold) ==
    SelectSeq(trace, LAMBDA e : e.progress - e.last >= threshold)

\* the percentages of a sequence of trace entries
Percentages(entries) == [i \in 1..Len(entries) |-> entries[i].progress]

\* the last percentage pushed before entry i of a trace, -1 when none was
LastPushed(trace, threshold, i) ==
    LET before == Crossing(SubSeq(trace, 1, i - 1), threshold)
    IN  IF before = <<>> THEN -1 ELSE before[Len(before)].progress

NonDecreasing(seq) ==
    \A i, j \in 1..Len(seq) : i <= j => seq[i] <= seq[j]

\* C9: in the download phase the pushes made are exactly the chunks whose
\* progress is at least 3 above the last pushed percentage (-1 at first,
\* the pushed percentage after each push), in order, the push of the chunk
\* just written being the only one that can be outstanding; the pushed
\* percentages never decrease.
C9_DownloadThreshold ==
    \A s \in Started :
        LET r == run[s]
            due == Percentages(Crossing(r.dl_trace, 3))
        IN  /\ \A i \in 1..Len(r.dl_trace) :
                   r.dl_trace[i].last = LastPushed(r.dl_trace, 3, i)
            /\ IF r.pc = "download_push"
               THEN due = Append(r.dl_shown, r.progress)
               ELSE due = r.dl_shown
            /\ NonDecreasing(r.dl_shown)
            /\ Len(SelectSeq(r.msgs, LAMBDA m : m.kind = "download_progress"))
                 = Len(r.dl_shown)

C9_Witness ==
    \E s \in Started :
        /\ run[s].pc = "download"
        /\ Len(run[s].dl_trace) = 2
        /\ run[s].dl_shown = <<2>>
        /\ run[s].dl_trace[1].progress = 1

Rep(x, n) == [i \in 1..n |-> x]

KindSeq(r) == [i \in 1..Len(r.msgs) |-> r.msgs[i].kind]

\* no collaborator call of the run raised
NoFailure(r) ==
    /\ r.pc = "done" /\ r.result = "returned"
    /\ r.exc = NoExc /\ r.http_error = None

\* C11: an allowed sender's 10 MiB file, delivered in 1 MiB chunks and
\* uploaded in 2 MiB chunks with no call failing, makes the run emit, in
\* this order, the received notice (and the preparing message), one or
\* more download-progress edits, the download-complete edit, one or more
\* upload-progress edits and last the success message with the provider's
\* id and link; no failure message; the temporary file is gone after one
\* unlink.
C11_ScenarioB ==
    \A s \in Started :
        LET r == run[s]
        IN  (r.authorized = "True" /\ r.file_size = TenMiB /\ NoFailure(r))
            => /\ \E n, m \in 1..Len(r.msgs) :
                     KindSeq(r) = <<"received", "preparing">>
                                    \o Rep("download_progress", n)
                                    \o <<"download_complete">>
                                    \o Rep("upload_progress", m)
                                    \o <<"success">>
               /\ r.msgs[Len(r.msgs)]
                    = Msg("success", Response.id, Response.webViewLink)
               /\ r.created = 1 /\ r.unlinked = 1
               /\ ~fs[r.temp_file_path].exists

C11_Witness ==
    \E s \in Started :
        /\ run[s].file_size = TenMiB /\ NoFailure(run[s])
        /\ run[s].authorized = "True"
        /\ run[s].dl_shown = <<10, 20, 30, 40, 50, 60, 70, 80, 90, 100>>
        /\ run[s].ul_shown = <<20, 40, 60, 80>>
        /\ run[s].msgs[Len(run[s].msgs)].kind = "success"
        /\ FileLen(run[s].yielded) = 10 * chunk_size

\* the messages that report the outcome of a transfer
Terminal == {"success", "upload_failed", "error"}

\* the run went past the authorization gate and the size guard
PassedGuards(r) ==
    /\ r.handler = "file" /\ r.authorized = "True"
    /\ r.document /\ ~TooLarge(r.file_size)

\* C12 (as claimed): a handle_file run that passed the authorization gate
\* and the size guard, once over, has returned, its last message is one of
\* success, upload-failure or generic failure, and it has not emitted both
\* a success and a failure message.
C12_TerminalOutcome ==
    \A s \in Started :
        LET r == run[s]
        IN  (PassedGuards(r) /\ r.pc = "done")
            => /\ r.result = "returned"
               /\ r.msgs # <<>>
               /\ r.msgs[Len(r.msgs)].kind \in Terminal
               /\ ~ /\ "success" \in Kinds(r)
                    /\ {"upload_failed", "error"} \cap Kinds(r) # {}

\* C13 (as claimed): in either variant, while TELEGRAM_BOT_TOKEN or
\* GOOGLE_SERVICE_ACCOUNT is missing the process does not serve requests,
\* answers none and runs no handler on an inbound file event.
C13_MissingConfigurationFatal ==
    (~proc.token \/ ~proc.credential)
        => /\ proc.main # "serving"
           /\ proc.served = 0
           /\ \A s \in Sessions : run[s].pc = "off"

\* the session holds the path: it created the temporary file and has
\* neither run its cleanup nor ended
Holds(s, path) ==
    /\ run[s].temp_file_path = path
    /\ run[s].created > 0 /\ run[s].unlinked = 0
    /\ run[s].pc \notin {"off", "done"}

\* no two sessions hold the same path, and a held file is there with
\* exactly the chunks its holder wrote
Exclusive ==
    \A s \in Sessions : \A path \in Paths :
        Holds(s, path)
            => /\ \A t \in Sessions \ {s} : ~Holds(t, path)
               /\ fs[path].exists
               /\ fs[path].data = run[s].yielded

\* a file disappears only in the cleanup of the session that holds it
OwnCleanup ==
    \A path \in Paths :
        (fs[path].exists /\ ~fs'[path].exists)
            => \E s \in Sessions :
                  /\ Holds(s, path) /\ run[s].pc = "finally"
                  /\ run'[s] # run[s]
                  /\ \A t \in Sessions \ {s} : ~Holds(t, path)

\* a step changes the counters, the last pushed percentages and every
\* other local of one session at most
OwnSteps ==
    \A s, t \in Sessions :
        (s # t /\ run'[s] # run[s]) => run'[t] = run[t]

\* C14: in every interleaving of two handle_file runs, no two live sessions
\* hold the same temporary file path, a cleanup deletes only the file of
\* the session that runs it, and a session's byte counters and last pushed
\* percentages change only in its own steps.
C14_SessionsIndependent ==
    /\ []Exclusive
    /\ [][OwnCleanup /\ OwnSteps]_vars

C14_Witness ==
    \E s, t \in Sessions : \E p, q \in Paths :
        /\ s # t /\ p # q
        /\ Holds(s, p) /\ run[s].pc = "finally"
        /\ Holds(t, q) /\ run[t].downloaded_size > 0
        /\ run[t].last_progress_update # run[s].last_progress_update

\* what the collaborators have answered to a run so far: the number of its
\* steps, the exceptions raised, the chunks delivered, the fractions
\* acknowledged and the final response
Heard(r) ==
    [steps |-> r.steps, raised |-> r.raised, yielded |-> r.yielded,
     fractions |-> [i \in 1..Len(r.ul_trace) |-> r.ul_trace[i].fraction],
     response |-> r.response]

\* what a run has done: chat messages and edits, storage-provider calls,
\* creations and deletions of the temporary file, and how it ended
Observed(r) ==
    [msgs |-> r.msgs, drive |-> r.drive, created |-> r.created,
     unlinked |-> r.unlinked, result |-> r.result]

FilledCells(bar) == Cardinality({i \in 1..Len(bar) : bar[i] = "filled"})

\* C16: for every progress in 0..100 and width 20, create_progress_bar
\* renders exactly 20 cells, the first floor(20 * progress / 100) filled
\* and the rest empty, followed by the percentage; 0 gives 0 filled cells,
\* 100 gives 20 and 37 gives 7.
C16_ProgressBar ==
    call.fn = "create_progress_bar"
        => LET filled == FilledCells(call.bar)
           IN  /\ call.progress \in 0..100
               /\ Len(call.bar) = 20
               /\ 100 * filled <= 20 * call.progress
               /\ 20 * call.progress < 100 * (filled + 1)
               /\ \A i \in 1..20 :
                     call.bar[i] = IF i <= filled THEN "filled" ELSE "empty"
               /\ call.percent = call.progress
               /\ call.progress = 0 => filled = 0
               /\ call.progress = 100 => filled = 20
               /\ call.progress = 37 => filled = 7

C16_Witness ==
    /\ call.fn = "create_progress_bar"
    /\ call.progress = 37
    /\ FilledCells(call.bar) = 7 /\ Len(call.bar) = 20

\* what format_file_size returns for byte counts below 1 GiB and for
\* <<GiB, bytes>> counts, taken from runs of the function
Formatted ==
    {<<Bytes(0, 0), 0, <<>>, "B">>, <<Bytes(0, 1), 1, <<>>, "B">>,
     <<Bytes(0, 512), 512, <<>>, "B">>, <<Bytes(0, 1023), 1023, <<>>, "B">>,
     <<Bytes(0, 1024), 1, <<0, 0>>, "KB">>,
     <<Bytes(0, 1025), 1, <<0, 0>>, "KB">>,
     <<Bytes(0, 1029), 1, <<0, 0>>, "KB">>,
     <<Bytes(0, 1030), 1, <<0, 1>>, "KB">>,
     <<Bytes(0, 1152), 1, <<1, 2>>, "KB">>,
     <<Bytes(0, 1408), 1, <<3, 8>>, "KB">>,
     <<Bytes(0, 1536), 1, <<5, 0>>, "KB">>,
     <<Bytes(0, 1048575), 1024, <<0, 0>>, "KB">>,
     <<Bytes(0, 1048576), 1, <<0, 0>>, "MB">>,
     <<Bytes(0, 1572864), 1, <<5, 0>>, "MB">>,
     <<Bytes(0, GiB - 1), 1024, <<0, 0>>, "MB">>,
     <<Bytes(1, 0), 1, <<0, 0>>, "GB">>,
     <<Bytes(1, GiB \div 2), 1, <<5, 0>>, "GB">>,
     <<Bytes(6, 0), 6, <<0, 0>>, "GB">>,
     <<Bytes(7, 5), 7, <<0, 0>>, "GB">>}

\* C17: format_file_size picks the largest unit among B, KB, MB, GB in
\* which the value is at least 1 (B below 1024), prints bytes as an
\* integer and the other units with two decimals; 0 gives "0B", 1024 gives
\* "1.00KB" and 1024^3 gives "1.00GB".
C17_FormatFileSize ==
    call.fn = "format_file_size"
        => LET n == call.size_bytes
           IN  /\ call.unit = "GB" <=> n.g >= 1
               /\ call.unit = "MB" <=> (n.g = 0 /\ n.b >= 1024 * 1024)
               /\ call.unit = "KB"
                    <=> (n.g = 0 /\ n.b >= 1024 /\ n.b < 1024 * 1024)
               /\ call.unit = "B" <=> (n.g = 0 /\ n.b < 1024)
               /\ call.unit = "B"
                    => (call.whole = n.b /\ call.decimals = <<>>)
               /\ call.unit # "B"
                    => /\ call.whole >= 1
                       /\ Len(call.decimals) = 2
                       /\ \A i \in 1..2 : call.decimals[i] \in 0..9
               /\ <<n, call.whole, call.decimals, call.unit>> \in Formatted

C17_Witness ==
    /\ call.fn = "format_file_size"
    /\ call.size_bytes = Bytes(1, 0)
    /\ call.unit = "GB" /\ call.whole = 1 /\ call.decimals = <<0, 0>>

\* C18: the cleanup (existence check, then unlink) is idempotent: on a
\* file that is already gone it raises nothing and changes nothing, and
\* running it twice leaves what running it once leaves.
C18_CleanupIdempotent ==
    \A path \in Paths :
        LET once == CleanupStep(fs, path)
            twice == CleanupStep(once.files, path)
        IN  /\ once.error = None
            /\ ~once.files[path].exists
            /\ \A other \in Paths \ {path} : once.files[other] = fs[other]
            /\ ~fs[path].exists => once.files = fs
            /\ twice.error = None
            /\ twice.files = once.files

\* a run whose finally has removed its temporary file, with another file
\* still there
C18_Witness ==
    \E s \in Started :
        /\ run[s].unlinked = 1
        /\ ~fs[run[s].temp_file_path].exists
        /\ CleanupStep(fs, run[s].temp_file_path).files = fs
        /\ \E other \in Paths : fs[other].exists

\* the failures of the download phase, by the call that raised
DownloadFailures ==
    {"preparing", "get_file", "download_chunk", "download_progress",
     "download_complete", "division by zero"}

\* the control points from the first storage-provider call on
UploadPhase ==
    {"get_drive_service", "upload", "upload_push", "success", "http_except",
     "finally", "except", "done"}

\* a provider call has been made only after the download loop has ended
\* and the download-complete edit was sent, and never in a run whose
\* download phase failed
AfterDownload ==
    \A s \in Started :
        LET r == run[s]
        IN  r.handler = "file"
            => /\ r.drive # <<>>
                    => /\ "download_complete" \in Kinds(r)
                       /\ r.pc \in UploadPhase \ {"get_drive_service"}
                       /\ r.created = 1
               /\ (\E i \in 1..Len(r.raised) :
                        r.raised[i].text \in DownloadFailures)
                    => r.drive = <<>>

\* from the first provider call on, no chunk is written any more, and a
\* provider call is made from the upload phase only
NoChunkAfterUpload ==
    \A s \in Sessions :
        LET r == run[s]
            q == run'[s]
        IN  r.handler = "file"
            => /\ r.drive # <<>>
                    => (q.yielded = r.yielded
                        /\ q.downloaded_size = r.downloaded_size)
               /\ q.drive # r.drive
                    => r.pc \in {"get_drive_service", "upload"}

\* C19: in a handle_file run no storage-provider call (authentication,
\* upload creation, next_chunk) is made before the last chunk of the
\* download has been written and the download loop has ended, and a run
\* whose download phase fails makes no storage-provider call at all.
C19_PhasesSequential ==
    /\ []AfterDownload
    /\ [][NoChunkAfterUpload]_vars

C19_Witness ==
    \E s \in Started :
        /\ run[s].handler = "file"
        /\ Len(run[s].yielded) = 2
        /\ run[s].drive = <<"auth", "create", "next_chunk">>
        /\ run[s].dl_shown # <<>>

\* C20 (as claimed): the percentage a download-progress push shows is
\* min(floor(downloaded * 100 / declared_size), 100) for the bytes
\* downloaded so far, lies in 0..100, and its bar has at most 20 filled
\* cells.
C20_DownloadPercentage ==
    \A s \in Started :
        LET r == run[s]
        IN  (r.pc = "download_push" /\ r.file_size # Bytes(0, 0))
            => /\ r.progress
                    = IF r.file_size.g > 0
                      THEN 0
                      ELSE Min((r.downloaded_size * 100) \div r.file_size.b,
                               100)
               /\ r.progress \in 0..100
               /\ FilledCells(create_progress_bar(r.progress,
                                                  DefaultWidth).bar) <= 20

\* C21 (as claimed): the last message of a finished handle_file run is a
\* failure message (upload-failure or generic) only if the provider
\* returned no final upload result in that run, and the success message
\* only if it did.
C21_TerminalAgreesWithProvider ==
    \A s \in Started :
        LET r == run[s]
        IN  (r.handler = "file" /\ r.pc = "done" /\ r.msgs # <<>>)
            => LET last == r.msgs[Len(r.msgs)].kind
               IN  /\ last \in {"upload_failed", "error"}
                        => r.response = NoResponse
                   /\ last = "success" => r.response = Response

\* the download loop has ended with exactly the declared size received
ReceivedDeclaredSize(r) ==
    /\ r.handler = "file" /\ r.created > 0
    /\ r.pc \notin {"download", "download_push", "except", "done"}
    /\ r.file_size.g = 0 /\ r.file_size.b > 0
    /\ r.downloaded_size = r.file_size.b
    /\ \A i \in 1..Len(r.raised) : r.raised[i].text \notin DownloadFailures

\* C22: when the download loop ends having received exactly the declared
\* size (> 0), 100 - lastPushed < 3, at least one download-progress push
\* was made and the last one shows 98% or more.
C22_LastPushAtLeast98 ==
    \A s \in Started :
        LET r == run[s]
        IN  ReceivedDeclaredSize(r)
            => /\ 100 - r.last_progress_update < 3
               /\ r.dl_shown # <<>>
               /\ r.dl_shown[Len(r.dl_shown)] >= 98
               /\ r.dl_shown[Len(r.dl_shown)] = r.last_progress_update
               /\ "download_progress" \in Kinds(r)

\* the last chunk brought the progress from 98 to 100 without a push
C22_Witness ==
    \E s \in Started :
        /\ ReceivedDeclaredSize(run[s])
        /\ run[s].pc = "download_complete"
        /\ run[s].last_progress_update = 98
        /\ run[s].progress = 100
        /\ Len(run[s].yielded) = 3

\* C23: as long as the temporary file of a run is there, the run's byte
\* counter is the total length of the chunks written to the file and the
\* file holds the chunks the transport yielded, each once and in arrival
\* order; in particular when the upload is created.
C23_FileHoldsYieldedChunks ==
    \A s \in Started :
        LET r == run[s]
        IN  (r.handler = "file" /\ r.created > 0 /\ r.unlinked = 0)
            => LET data == fs[r.temp_file_path].data
               IN  /\ fs[r.temp_file_path].exists
                   /\ r.downloaded_size = FileLen(data)
                   /\ data = r.yielded
                   /\ \A i \in 1..Len(data) : data[i].seq = i

\* the upload has been created on a file of three chunks
C23_Witness ==
    \E s \in Started :
        /\ run[s].pc = "upload"
        /\ run[s].drive = <<"auth", "create">>
        /\ Len(run[s].yielded) = 3
        /\ fs[run[s].temp_file_path].data = run[s].yielded
        /\ run[s].downloaded_size = 100

====
